---- MODULE Spec2Model ----
(***************************************************************************)
(* Model of the PingMonitor engine of app.py: configuration (re)load, the  *)
(* per-host probe, the parallel probe pass, the result store and the       *)
(* background scheduler (start / stop / loop).                             *)
(*                                                                         *)
(* Threads are interleaved at the granularity of the reads and writes of   *)
(* the monitor's shared attributes (self.hosts, self.host_info,            *)
(* self.results, self.is_running, self.background_thread).  A region held  *)
(* under self.lock is one step.                                            *)
(***************************************************************************)
EXTENDS Integers, Sequences, FiniteSets, TLC

(***************************************************************************)
(* Bounds of the model.                                                    *)
(***************************************************************************)
NumCallers == 2      \* request threads calling into the monitor
MaxLoops == 2        \* Thread objects that may exist at one time
MaxCount == 2        \* history counters saturate here ("2" reads "2 or more")
MaxLoads == 1        \* reloads of the configuration in one run
MaxCalls == 2        \* reloads, forced passes and single probes in one run
MaxGroups == 2       \* groups in a generated grouped document
MaxNow == 2          \* readings of the clock that can be told apart

TimeStep == 10       \* seconds that one Tick of the modelled clock lets pass

(***************************************************************************)
(* Program constants.                                                      *)
(***************************************************************************)
PoolCap == 30        \* min(30, len(self.hosts))
SleepInterval == 30  \* time.sleep(30)
JoinTimeout == 5     \* join(timeout=5)
LatencyLimit == 50   \* latency <= 50 is green

Callers == 1..NumCallers
LoopIds == 101..(100 + MaxLoops)
Runners == Callers \cup LoopIds
NoThread == 0        \* self.background_thread = None
None == -1           \* Python's None for latency and timestamp
Tenths == 10         \* a latency is kept in tenths of a millisecond

Hosts == {"h1", "h2"}
Addresses == Hosts \cup {"h9"}     \* h9 is in no document
DefaultType == "Unknown"
DefaultColor == "#6c757d"

Min(a, b) == IF a <= b THEN a ELSE b
Range(s) == {s[i] : i \in 1..Len(s)}

(***************************************************************************)
(* Configuration documents, as yaml.safe_load returns them.  kind "none"   *)
(* is an empty file, "notmap" a document that is no dictionary, "map" a    *)
(* dictionary whose 'hosts' value is the list items, "nokey" a dictionary  *)
(* without a 'hosts' key, and "unreadable" a file that open or             *)
(* yaml.safe_load raises on.  An item is either a group (a dict with a     *)
(* 'type' key) holding entries, or a bare entry.  An entry is an address   *)
(* with the known_offline value its form gives.                            *)
(***************************************************************************)
Entry(ip, ko) == [isGroup |-> FALSE, ip |-> ip, known_offline |-> ko]
Group(t, c, ips) == [isGroup |-> TRUE, type |-> t, color |-> c, ips |-> ips]
DocA == [kind |-> "map", items |-> << Entry("h1", FALSE), Entry("h2", TRUE) >>]
DocB == [kind |-> "map",
         items |-> << Group("edge", "#00f", << Entry("h1", TRUE) >>) >>]
DocNone == [kind |-> "none", items |-> << >>]
Docs == {DocA, DocB, DocNone}
InitDocs == {DocA, DocB}
NoDoc == [kind |-> "nodoc", items |-> << >>]

\* Documents that end a load before line 61 or give it nothing to append.
DocNotMap == [kind |-> "notmap", items |-> << >>]
DocUnreadable == [kind |-> "unreadable", items |-> << >>]
DocNoKey == [kind |-> "nokey", items |-> << >>]
BadDocs == {DocNone, DocNotMap, DocUnreadable, DocNoKey}

\* Grouped documents: up to MaxGroups groups drawn from a pool in which an
\* address recurs inside a group and across groups.
GroupPool ==
    { Group("edge", "#00f", << Entry("h1", TRUE) >>),
      Group("core", "#0f0", << Entry("h1", FALSE), Entry("h2", FALSE) >>),
      Group("edge", "#00f", << Entry("h2", TRUE), Entry("h2", FALSE) >>),
      Group("lab", "#f00", << >>) }
GroupLists == UNION {[1..n -> GroupPool] : n \in 1..MaxGroups}
GroupedDocs == {[kind |-> "map", items |-> gs] : gs \in GroupLists}

Meta(t, c, ko) == [type |-> t, color |-> c, known_offline |-> ko]

\* The (ip, metadata) pairs of one group, in the order lines 72-93 visit them.
RECURSIVE GroupEntries(_, _)
GroupEntries(g, i) ==
    IF i > Len(g.ips) THEN << >>
    ELSE << [ip |-> g.ips[i].ip,
             meta |-> Meta(g.type, g.color, g.ips[i].known_offline)] >>
         \o GroupEntries(g, i + 1)

\* The (ip, metadata) pairs of the whole 'hosts' list of a grouped document.
RECURSIVE ParseGroups(_, _)
ParseGroups(items, i) ==
    IF i > Len(items) THEN << >>
    ELSE GroupEntries(items[i], 1) \o ParseGroups(items, i + 1)

\* The (ip, metadata) pairs of a flat 'hosts' list (lines 97-117).
RECURSIVE ParseFlat(_, _)
ParseFlat(items, i) ==
    IF i > Len(items) THEN << >>
    ELSE << [ip |-> items[i].ip,
             meta |-> Meta(DefaultType, DefaultColor, items[i].known_offline)] >>
         \o ParseFlat(items, i + 1)

\* The pairs load_config appends, in order.  Line 65 takes the list for a
\* grouped one if its first item is a dictionary with a 'type' key.
ParseHosts(doc) ==
    IF doc.items # << >> /\ doc.items[1].isGroup
    THEN ParseGroups(doc.items, 1)
    ELSE ParseFlat(doc.items, 1)

\* The host list a completed load of doc leaves in self.hosts.
RECURSIVE IpsOf(_)
IpsOf(es) == IF es = << >> THEN << >> ELSE << Head(es).ip >> \o IpsOf(Tail(es))
LoadedHosts(doc) == IF doc.kind = "map" THEN IpsOf(ParseHosts(doc)) ELSE << >>

\* data.get('hosts', []) is there to be parsed (lines 50-61).
Parsed(doc) == doc.kind \in {"map", "nokey"}

\* self.host_info after the pairs es were stored into info, last write winning.
RECURSIVE InfoOf(_, _)
InfoOf(info, es) ==
    IF es = << >> THEN info
    ELSE InfoOf([h \in DOMAIN info \cup {Head(es).ip} |->
                    IF h = Head(es).ip THEN Head(es).meta ELSE info[h]],
                Tail(es))

EmptyMap == [h \in {} |-> 0]

(***************************************************************************)
(* The probe.  The external ping is mocked to a fixed outcome per host:    *)
(* what subprocess.run did (raised "none": it returned; "timeout": it      *)
(* raised TimeoutExpired; "error": it raised something else), its return   *)
(* code, and the latency _parse_latency finds in its output (None if       *)
(* absent).                                                                *)
(***************************************************************************)
Outcome(x, rc, l) == [raised |-> x, returncode |-> rc, latency |-> l]
FixedMock ==
    [h \in Hosts |-> IF h = "h1" THEN Outcome("none", 0, 20 * Tenths)
                     ELSE Outcome("none", 1, None)]

\* Outcomes the mock can be set to: latencies None, 20.0, 50.0 and 50.1 ms under
\* both return codes, and the two ways subprocess.run raises.
Latencies == {None, 20 * Tenths, LatencyLimit * Tenths, LatencyLimit * Tenths + 1}
Outcomes ==
    {Outcome("none", rc, l) : rc \in {0, 1}, l \in Latencies}
        \cup {Outcome("timeout", 0, None), Outcome("error", 0, None)}

\* Lines 161-171 and 181-209: status of a finished ping.
ClassifyStrict(o) ==
    IF o.raised = "none" /\ o.returncode = 0
    THEN IF o.latency # None /\ o.latency < LatencyLimit * Tenths THEN "green"
         ELSE IF o.latency # None THEN "yellow"
         ELSE "green"
    ELSE "red"

Classify(o) ==
    IF o.raised = "none" /\ o.returncode = 0
    THEN IF o.latency # None /\ o.latency <= LatencyLimit * Tenths THEN "green"
         ELSE IF o.latency # None /\ o.latency > LatencyLimit * Tenths THEN "yellow"
         ELSE "green"
    ELSE "red"

ResultLatency(o) == IF o.raised = "none" /\ o.returncode = 0 THEN o.latency ELSE None

\* The dictionary ping_host returns (lines 173-209); ts is what datetime.now()
\* gave.
ProbeResult(o, ts, t, c, ko) ==
    [status |-> Classify(o), latency |-> ResultLatency(o), timestamp |-> ts,
     type |-> t, color |-> c, known_offline |-> ko]

\* The placeholder load_config stores for a host with no entry (lines 126-133).
Placeholder(m) ==
    [status |-> "unknown", latency |-> None, timestamp |-> None,
     type |-> m.type, color |-> m.color, known_offline |-> m.known_offline]

\* self.host_info.get(host, {}).get(key, default), lines 150, 177, 178.
InfoType(info, h) == IF h \in DOMAIN info THEN info[h].type ELSE DefaultType
InfoColor(info, h) == IF h \in DOMAIN info THEN info[h].color ELSE DefaultColor
InfoKnownOffline(info, h) == IF h \in DOMAIN info THEN info[h].known_offline ELSE FALSE

VARIABLES
    hosts,              \* self.hosts: the content of the list object it names
    host_info,          \* self.host_info: address -> metadata
    results,            \* self.results: address -> result dictionary
    is_running,         \* self.is_running
    background_thread,  \* self.background_thread: NoThread or a loop id
    pc,                 \* position of every caller and every Thread object
    op,                 \* the operation a caller is in (or last was in)
    ret,                \* how a caller's operation ended: "ok" or "exception"
    out,                \* the value a caller's operation returned
    ldTodo,             \* load_config: the pairs still to append
    ldOld,              \* load_config: self.hosts as it was when the load began
    ppc,                \* position inside ping_all_hosts_parallel
    maxw,               \* max_workers of the runner's executor
    iter,               \* the runner's iteration over self.hosts (line 248)
    tasks,              \* the futures of the runner's executor, in submit order
    sleepLeft,          \* seconds left of a loop's time.sleep(30)
    joinLeft,           \* seconds left of a caller's join(timeout=5)
    joinOn,             \* the Thread a caller's join waits for
    passes,             \* history: full passes a loop has begun (saturating)
    elapsed,            \* history: a loop's first 30 s interval has elapsed
    startCalls,         \* history: calls of start_background_monitoring (saturating)
    stopEarly,          \* history: stop cleared the flag before the first interval elapsed
    solo,               \* history: no other caller was active during the caller's start
    loads,              \* history: reloads begun
    forces,             \* history: forced passes begun
    singles,            \* history: single-host probes begun
    ldDoc,              \* load_config: the document the load in progress has read
    mock,               \* the outcome the mocked ping gives for every address
    now,                \* the clock datetime.now() reads
    wasRunning          \* history: self.is_running when the caller's start began

topoVars == << hosts, host_info >>
schedVars == << is_running, background_thread >>
callVars == << op, ret, out >>
loadVars == << ldTodo, ldOld, ldDoc >>
envVars == << mock, now >>

\* What the mocked ping gives for address h.
MockOutcome(h) == mock[h]
passVars == << ppc, maxw, iter, tasks >>
timeVars == << sleepLeft, joinLeft, joinOn >>
histVars == << passes, elapsed, startCalls, stopEarly, solo, wasRunning, loads, forces, singles >>
vars == << hosts, host_info, results, is_running, background_thread, pc, op, ret, out,
           ldTodo, ldOld, ppc, maxw, iter, tasks, sleepLeft, joinLeft, joinOn,
           passes, elapsed, startCalls, stopEarly, solo, wasRunning, loads, forces, singles,
           ldDoc, mock, now >>

NoIter == [live |-> FALSE, lst |-> << >>, idx |-> 0]
Sat(n) == Min(n + 1, MaxCount)

\* Thread.is_alive(): started and not yet finished.
IsAlive(t) == t \in LoopIds /\ pc[t] \notin {"none", "new", "dead"}
AliveLoops == {t \in LoopIds : IsAlive(t)}

\* The state __init__ leaves (lines 27-41) after loading document d: the hosts
\* and placeholders of d, the flag set, the first Thread started.
InitMock(d, m) ==
    /\ mock = m
    /\ now = 1
    /\ singles = 0
    /\ hosts = LoadedHosts(d)
    /\ host_info = InfoOf(EmptyMap, ParseHosts(d))
    /\ results = [h \in Range(LoadedHosts(d)) |->
                    Placeholder(InfoOf(EmptyMap, ParseHosts(d))[h])]
    /\ is_running = TRUE
    /\ background_thread = 101
    /\ pc = [r \in Runners |-> IF r \in Callers THEN "idle"
                               ELSE IF r = 101 THEN "initial" ELSE "none"]
    /\ op = [c \in Callers |-> "none"]
    /\ ret = [c \in Callers |-> "none"]
    /\ out = [c \in Callers |-> 0]
    /\ ldTodo = [c \in Callers |-> << >>]
    /\ ldOld = [c \in Callers |-> << >>]
    /\ ldDoc = [c \in Callers |-> NoDoc]
    /\ ppc = [r \in Runners |-> IF r = 101 THEN "check" ELSE "off"]
    /\ maxw = [r \in Runners |-> 0]
    /\ iter = [r \in Runners |-> NoIter]
    /\ tasks = [r \in Runners |-> << >>]
    /\ sleepLeft = [t \in LoopIds |-> 0]
    /\ joinLeft = [c \in Callers |-> 0]
    /\ joinOn = [c \in Callers |-> NoThread]
    /\ passes = [t \in LoopIds |-> 0]
    /\ elapsed = [t \in LoopIds |-> FALSE]
    /\ startCalls = 1
    /\ stopEarly = FALSE
    /\ solo = [c \in Callers |-> TRUE]
    /\ wasRunning = [c \in Callers |-> TRUE]
    /\ loads = 0
    /\ forces = 0

InitOf(d) == InitMock(d, FixedMock)

Init == \E d \in InitDocs : InitOf(d)

(***************************************************************************)
(* Thread objects.  A Thread that has finished (or was never started) and  *)
(* that neither self.background_thread nor a pending join refers to is     *)
(* unreachable; its slot is handed out again.                              *)
(***************************************************************************)
Reap(p, bg, jo) ==
    [r \in Runners |->
        IF /\ r \in LoopIds
           /\ p[r] \in {"new", "dead"}
           /\ r # bg
           /\ \A c \in Callers : ~(p[c] = "sp_join" /\ jo[c] = r)
        THEN "none" ELSE p[r]]
Clean(p, x, zero) == [t \in LoopIds |-> IF p[t] = "none" THEN zero ELSE x[t]]

(***************************************************************************)
(* ping_all_hosts_parallel (lines 239-270), run by a caller (force) or by  *)
(* a loop Thread (initial and interval pass).                              *)
(***************************************************************************)
\* The list object the runner's iteration holds: the live one, or one that
\* self.hosts named when the iteration began and names no more.
IterList(r) == IF iter[r].live THEN hosts ELSE iter[r].lst

\* Control leaves the pass, normally (ok) or by an exception.  A caller returns
\* to its caller; the initial pass of a loop is outside the try of lines
\* 281-291, an interval pass inside it.
LeavePass(r, ok) ==
    /\ ppc' = [ppc EXCEPT ![r] = "off"]
    /\ maxw' = [maxw EXCEPT ![r] = 0]
    /\ iter' = [iter EXCEPT ![r] = NoIter]
    /\ IF r \in Callers
       THEN /\ pc' = [pc EXCEPT ![r] = "ret"]
            /\ ret' = [ret EXCEPT ![r] = IF ok THEN "ok" ELSE "exception"]
            /\ UNCHANGED << tasks, sleepLeft, elapsed >>
       ELSE /\ pc' = Reap([pc EXCEPT ![r] =
                              IF ok THEN "while"
                              ELSE IF pc[r] = "initial" THEN "dead"
                              ELSE "exc_sleep"],
                          background_thread, joinOn)
            /\ sleepLeft' = [sleepLeft EXCEPT ![r] =
                                IF ~ok /\ pc[r] = "interval" THEN SleepInterval ELSE 0]
            /\ tasks' = [tasks EXCEPT ![r] = << >>]
            /\ elapsed' = Clean(pc', elapsed, FALSE)
            /\ UNCHANGED ret

\* Line 241: if not self.hosts: return
PassCheck(r) ==
    /\ ppc[r] = "check"
    /\ IF hosts = << >>
       THEN LeavePass(r, TRUE)
       ELSE /\ ppc' = [ppc EXCEPT ![r] = "workers"]
            /\ UNCHANGED << pc, ret, maxw, iter, tasks, sleepLeft, elapsed >>
    /\ passes' = IF r \in LoopIds
                 THEN Clean(pc', [passes EXCEPT ![r] = Sat(passes[r])], 0)
                 ELSE passes
    /\ UNCHANGED << envVars, topoVars, results, schedVars, op, out, loadVars, joinLeft, joinOn,
                    startCalls, stopEarly, solo, wasRunning, loads, forces, singles >>

\* Lines 244-246: max_workers = min(30, len(self.hosts)); ThreadPoolExecutor
\* raises ValueError for max_workers = 0.
PassWorkers(r) ==
    /\ ppc[r] = "workers"
    /\ IF Min(PoolCap, Len(hosts)) = 0
       THEN /\ LeavePass(r, FALSE)
            /\ passes' = Clean(pc', passes, 0)
       ELSE /\ maxw' = [maxw EXCEPT ![r] = Min(PoolCap, Len(hosts))]
            /\ ppc' = [ppc EXCEPT ![r] = "iter"]
            /\ UNCHANGED << pc, ret, iter, tasks, sleepLeft, elapsed, passes >>
    /\ UNCHANGED << envVars, topoVars, results, schedVars, op, out, loadVars, joinLeft, joinOn,
                    startCalls, stopEarly, solo, wasRunning, loads, forces, singles >>

\* Line 248: "for host in self.hosts" takes the list object self.hosts names.
PassIter(r) ==
    /\ ppc[r] = "iter"
    /\ iter' = [iter EXCEPT ![r] = [live |-> TRUE, lst |-> << >>, idx |-> 1]]
    /\ ppc' = [ppc EXCEPT ![r] = "submit"]
    /\ UNCHANGED << envVars, topoVars, results, schedVars, pc, callVars, loadVars, maxw, tasks,
                    timeVars, histVars >>

\* Line 248: the next element is submitted, or the list is exhausted.
PassSubmit(r) ==
    /\ ppc[r] = "submit"
    /\ IF iter[r].idx <= Len(IterList(r))
       THEN /\ tasks' = [tasks EXCEPT ![r] =
                  Append(@, [host |-> IterList(r)[iter[r].idx], st |-> "queued",
                             known_offline |-> FALSE, timestamp |-> None,
                             type |-> "-", color |-> "-", ord |-> 0])]
            /\ iter' = [iter EXCEPT ![r].idx = @ + 1]
            /\ UNCHANGED ppc
       ELSE /\ ppc' = [ppc EXCEPT ![r] = "collect"]
            /\ iter' = [iter EXCEPT ![r] = NoIter]
            /\ UNCHANGED tasks
    /\ UNCHANGED << envVars, topoVars, results, schedVars, pc, callVars, loadVars, maxw,
                    timeVars, histVars >>

Running(r) == {i \in 1..Len(tasks[r]) : tasks[r][i].st \in {"probing", "typed"}}

\* A free worker of the pool takes the oldest queued task and enters ping_host;
\* line 150 reads known_offline.
TaskStart(r, i) ==
    /\ i \in 1..Len(tasks[r])
    /\ tasks[r][i].st = "queued"
    /\ \A j \in 1..(i - 1) : tasks[r][j].st # "queued"
    /\ Cardinality(Running(r)) < maxw[r]
    /\ tasks' = [tasks EXCEPT ![r][i].st = "probing",
                              ![r][i].known_offline =
                                  InfoKnownOffline(host_info, tasks[r][i].host)]
    /\ UNCHANGED << envVars, topoVars, results, schedVars, pc, callVars, loadVars, ppc, maxw, iter,
                    timeVars, histVars >>

\* The ping has ended; lines 176-177 (185-186, 195-196, 205-206) read the clock
\* and the type.
TaskType(r, i) ==
    /\ i \in 1..Len(tasks[r])
    /\ tasks[r][i].st = "probing"
    /\ tasks' = [tasks EXCEPT ![r][i].st = "typed",
                              ![r][i].timestamp = now,
                              ![r][i].type = InfoType(host_info, tasks[r][i].host)]
    /\ UNCHANGED << envVars, topoVars, results, schedVars, pc, callVars, loadVars, ppc, maxw, iter,
                    timeVars, histVars >>

\* Line 178 (187, 197, 207) reads the color; ping_host returns.
TaskColor(r, i) ==
    /\ i \in 1..Len(tasks[r])
    /\ tasks[r][i].st = "typed"
    /\ tasks' = [tasks EXCEPT ![r][i].st = "done",
                              ![r][i].color = InfoColor(host_info, tasks[r][i].host)]
    /\ UNCHANGED << envVars, topoVars, results, schedVars, pc, callVars, loadVars, ppc, maxw, iter,
                    timeVars, histVars >>

\* The dictionary the finished task i of runner r returned.
TaskResult(r, i) ==
    ProbeResult(MockOutcome(tasks[r][i].host), tasks[r][i].timestamp, tasks[r][i].type,
                tasks[r][i].color, tasks[r][i].known_offline)

\* A store that keeps the written entry only.
StoreOnly(res, h, v) == [x \in {h} |-> v]

\* self.results[host] = result
Store(res, h, v) == [x \in DOMAIN res \cup {h} |-> IF x = h THEN v ELSE res[x]]

Stored(r) == {i \in 1..Len(tasks[r]) : tasks[r][i].st = "stored"}

\* Lines 251-256: as_completed hands over a finished future; its result is
\* stored under the lock.
Collect(r, i) ==
    /\ ppc[r] = "collect"
    /\ i \in 1..Len(tasks[r])
    /\ tasks[r][i].st = "done"
    /\ results' = Store(results, tasks[r][i].host, TaskResult(r, i))
    /\ tasks' = [tasks EXCEPT ![r][i].st = "stored",
                              ![r][i].ord = 1 + Cardinality(Stored(r))]
    /\ UNCHANGED << envVars, topoVars, schedVars, pc, callVars, loadVars, ppc, maxw, iter,
                    timeVars, histVars >>

\* A pass that returns while futures are still out.
PassReturnEarly(r) ==
    /\ ppc[r] = "collect"
    /\ LeavePass(r, TRUE)
    /\ passes' = Clean(pc', passes, 0)
    /\ UNCHANGED << envVars, topoVars, results, schedVars, op, out, loadVars, joinLeft, joinOn,
                    startCalls, stopEarly, solo, wasRunning, loads, forces, singles >>

\* Every future was handed over: the with-block ends and the pass returns.
PassReturn(r) ==
    /\ ppc[r] = "collect"
    /\ \A i \in 1..Len(tasks[r]) : tasks[r][i].st = "stored"
    /\ LeavePass(r, TRUE)
    /\ passes' = Clean(pc', passes, 0)
    /\ UNCHANGED << envVars, topoVars, results, schedVars, op, out, loadVars, joinLeft, joinOn,
                    startCalls, stopEarly, solo, wasRunning, loads, forces, singles >>

PassStep(r) ==
    \/ PassCheck(r)
    \/ PassWorkers(r)
    \/ PassIter(r)
    \/ PassSubmit(r)
    \/ \E i \in 1..Len(tasks[r]) : TaskStart(r, i)
    \/ \E i \in 1..Len(tasks[r]) : TaskType(r, i)
    \/ \E i \in 1..Len(tasks[r]) : TaskColor(r, i)
    \/ \E i \in 1..Len(tasks[r]) : Collect(r, i)
    \/ PassReturn(r)

(***************************************************************************)
(* background_monitor (lines 272-291), the body of a loop Thread.  A       *)
(* started Thread is at "initial": the pass of line 277.                   *)
(***************************************************************************)
\* A loop whose while never reads the flag.
LoopWhileForever(t) ==
    /\ pc[t] = "while"
    /\ pc' = [pc EXCEPT ![t] = "sleep"]
    /\ sleepLeft' = [sleepLeft EXCEPT ![t] = SleepInterval]
    /\ UNCHANGED << envVars, topoVars, results, schedVars, callVars, loadVars, passVars,
                    joinLeft, joinOn, histVars >>

\* Line 280: while self.is_running; line 282 starts the sleep.
LoopWhile(t) ==
    /\ pc[t] = "while"
    /\ pc' = Reap([pc EXCEPT ![t] = IF is_running THEN "sleep" ELSE "dead"],
                  background_thread, joinOn)
    /\ sleepLeft' = [sleepLeft EXCEPT ![t] = IF is_running THEN SleepInterval ELSE 0]
    /\ passes' = Clean(pc', passes, 0)
    /\ elapsed' = Clean(pc', elapsed, FALSE)
    /\ UNCHANGED << envVars, topoVars, results, schedVars, callVars, loadVars, passVars,
                    joinLeft, joinOn, startCalls, stopEarly, solo, wasRunning, loads, forces, singles >>

\* A loop that does not read the flag again after its sleep.
LoopWakeNoRecheck(t) ==
    /\ pc[t] = "sleep"
    /\ sleepLeft[t] = 0
    /\ pc' = [pc EXCEPT ![t] = "interval"]
    /\ ppc' = [ppc EXCEPT ![t] = "check"]
    /\ UNCHANGED << envVars, topoVars, results, schedVars, callVars, loadVars, maxw, iter, tasks,
                    timeVars, histVars >>

\* Lines 282-286: the sleep is over; the flag is read again and, if it is still
\* set, the interval pass begins.
LoopWake(t) ==
    /\ pc[t] = "sleep"
    /\ sleepLeft[t] = 0
    /\ pc' = [pc EXCEPT ![t] = IF is_running THEN "interval" ELSE "while"]
    /\ ppc' = [ppc EXCEPT ![t] = IF is_running THEN "check" ELSE "off"]
    /\ UNCHANGED << envVars, topoVars, results, schedVars, callVars, loadVars, maxw, iter, tasks,
                    timeVars, histVars >>

\* Lines 289-291: the sleep of the except branch is over.
LoopRetry(t) ==
    /\ pc[t] = "exc_sleep"
    /\ sleepLeft[t] = 0
    /\ pc' = [pc EXCEPT ![t] = "while"]
    /\ UNCHANGED << envVars, topoVars, results, schedVars, callVars, loadVars, passVars,
                    timeVars, histVars >>

LoopStep(t) ==
    \/ LoopWhile(t)
    \/ LoopWake(t)
    \/ LoopRetry(t)

(***************************************************************************)
(* Time.  One Tick lets TimeStep seconds pass for every sleep and every    *)
(* join that is waiting; a wait is over when nothing is left of it.  The   *)
(* other steps take no time next to the 5 s and 30 s waits (a mocked probe *)
(* returns at once): time passes only while every thread is blocked in a   *)
(* wait, has finished, or is outside the monitor.                          *)
(***************************************************************************)
Blocked(r) == pc[r] \in {"idle", "ret", "sp_join", "sleep", "exc_sleep", "none", "new", "dead"}
Sleeping(t) == pc[t] \in {"sleep", "exc_sleep"} /\ sleepLeft[t] > 0
Joining(c) == pc[c] = "sp_join" /\ joinLeft[c] > 0
Less(n) == IF n > TimeStep THEN n - TimeStep ELSE 0

Tick ==
    /\ \A r \in Runners : Blocked(r)
    /\ (\E t \in LoopIds : Sleeping(t)) \/ (\E c \in Callers : Joining(c))
    /\ sleepLeft' = [t \in LoopIds |->
                        IF Sleeping(t) THEN Less(sleepLeft[t]) ELSE sleepLeft[t]]
    /\ joinLeft' = [c \in Callers |->
                        IF Joining(c) THEN Less(joinLeft[c]) ELSE joinLeft[c]]
    /\ elapsed' = [t \in LoopIds |->
                        elapsed[t] \/ (pc[t] = "sleep" /\ Sleeping(t) /\ sleepLeft'[t] = 0)]
    /\ UNCHANGED << envVars, topoVars, results, schedVars, pc, callVars, loadVars, passVars, joinOn,
                    passes, startCalls, stopEarly, solo, wasRunning, loads, forces, singles >>

(***************************************************************************)
(* Callers.  A caller enters an operation from "idle" and comes back       *)
(* through "ret", where what the operation returned can be looked at.      *)
(***************************************************************************)
\* Caller c enters operation name.  The history of a start: whether the flag
\* was set when it began, and whether any other caller was inside the monitor
\* between its beginning and its return.
Enter(c, name) ==
    /\ pc[c] = "idle"
    /\ op' = [op EXCEPT ![c] = name]
    /\ solo' = [x \in Callers |->
                    IF x = c
                    THEN name = "start" => \A y \in Callers \ {c} : pc[y] = "idle"
                    ELSE IF op[x] = "start" /\ pc[x] # "idle" THEN FALSE ELSE solo[x]]
    /\ wasRunning' = [wasRunning EXCEPT ![c] = (name = "start" => is_running)]

Return(c) ==
    /\ pc[c] = "ret"
    /\ pc' = [pc EXCEPT ![c] = "idle"]
    /\ op' = [op EXCEPT ![c] = "none"]
    /\ ret' = [ret EXCEPT ![c] = "none"]
    /\ out' = [out EXCEPT ![c] = 0]
    /\ tasks' = [tasks EXCEPT ![c] = << >>]
    /\ ldOld' = [ldOld EXCEPT ![c] = << >>]
    /\ ldDoc' = [ldDoc EXCEPT ![c] = NoDoc]
    /\ solo' = [solo EXCEPT ![c] = TRUE]
    /\ wasRunning' = [wasRunning EXCEPT ![c] = TRUE]
    /\ UNCHANGED << envVars, topoVars, results, schedVars, ldTodo, ppc, maxw, iter, timeVars,
                    passes, elapsed, startCalls, stopEarly, loads, forces, singles >>

\* force_ping_all (lines 331-334).
Force(c) ==
    /\ Enter(c, "force")
    /\ loads + forces + singles < MaxCalls
    /\ forces' = forces + 1
    /\ pc' = [pc EXCEPT ![c] = "force"]
    /\ ppc' = [ppc EXCEPT ![c] = "check"]
    /\ UNCHANGED << envVars, topoVars, results, schedVars, ret, out, loadVars, maxw, iter, tasks,
                    timeVars, passes, elapsed, startCalls, stopEarly, loads, singles >>

\* health_check (lines 386-394): len(monitor.hosts) and monitor.is_running.
Health(c) ==
    /\ Enter(c, "health")
    /\ pc' = [pc EXCEPT ![c] = "ret"]
    /\ ret' = [ret EXCEPT ![c] = "ok"]
    /\ out' = [out EXCEPT ![c] = [hosts_count |-> Len(hosts),
                                  monitoring_active |-> is_running]]
    /\ UNCHANGED << envVars, topoVars, results, schedVars, loadVars, passVars, timeVars,
                    passes, elapsed, startCalls, stopEarly, loads, forces, singles >>

\* A copy that tags every red entry as unknown-offline.
TaggedBoth(e) ==
    [status |-> e.status, latency |-> e.latency, timestamp |-> e.timestamp,
     type |-> e.type, color |-> e.color, known_offline |-> e.known_offline,
     show_known_tag |-> (e.status = "red" /\ e.known_offline),
     show_unknown_tag |-> (e.status = "red")]

\* Lines 315-327: the copy of one entry with its two tags.
Tagged(e) ==
    [status |-> e.status, latency |-> e.latency, timestamp |-> e.timestamp,
     type |-> e.type, color |-> e.color, known_offline |-> e.known_offline,
     show_known_tag |-> (e.status = "red" /\ e.known_offline),
     show_unknown_tag |-> (e.status = "red" /\ ~e.known_offline)]

\* get_results_copy (lines 308-329), under the lock.
ResultsCopy(c) ==
    /\ Enter(c, "snapshot")
    /\ pc' = [pc EXCEPT ![c] = "ret"]
    /\ ret' = [ret EXCEPT ![c] = "ok"]
    /\ out' = [out EXCEPT ![c] = [h \in DOMAIN results |-> Tagged(results[h])]]
    /\ UNCHANGED << envVars, topoVars, results, schedVars, loadVars, passVars, timeVars,
                    passes, elapsed, startCalls, stopEarly, loads, forces, singles >>

(***************************************************************************)
(* ping_single (lines 364-373).  The probe of the request is the one task  *)
(* of the caller; ping_host runs in the request thread.                    *)
(***************************************************************************)
\* Line 367: if host in monitor.hosts; else the 404 of line 373.
Single(c, h) ==
    /\ Enter(c, "single")
    /\ loads + forces + singles < MaxCalls
    /\ singles' = singles + 1
    /\ IF h \in Range(hosts)
       THEN /\ pc' = [pc EXCEPT ![c] = "single"]
            /\ ppc' = [ppc EXCEPT ![c] = "single"]
            /\ maxw' = [maxw EXCEPT ![c] = 1]
            /\ tasks' = [tasks EXCEPT ![c] =
                  << [host |-> h, st |-> "queued", known_offline |-> FALSE,
                      timestamp |-> None, type |-> "-", color |-> "-", ord |-> 0] >>]
            /\ UNCHANGED << ret, out >>
       ELSE /\ pc' = [pc EXCEPT ![c] = "ret"]
            /\ ret' = [ret EXCEPT ![c] = "not_found"]
            /\ out' = [out EXCEPT ![c] = [error |-> "Host not found"]]
            /\ UNCHANGED << ppc, maxw, tasks >>
    /\ UNCHANGED << envVars, topoVars, results, schedVars, loadVars, iter, timeVars,
                    passes, elapsed, startCalls, stopEarly, loads, forces >>

\* A single probe that writes nothing.
SingleStoreNothing(c) ==
    /\ pc[c] = "single"
    /\ tasks[c][1].st = "done"
    /\ tasks' = [tasks EXCEPT ![c][1].st = "stored", ![c][1].ord = 1]
    /\ pc' = [pc EXCEPT ![c] = "ret"]
    /\ ppc' = [ppc EXCEPT ![c] = "off"]
    /\ maxw' = [maxw EXCEPT ![c] = 0]
    /\ ret' = [ret EXCEPT ![c] = "ok"]
    /\ out' = [out EXCEPT ![c] = [h \in {tasks[c][1].host} |-> TaskResult(c, 1)]]
    /\ UNCHANGED << envVars, topoVars, results, schedVars, op, loadVars, iter, timeVars,
                    histVars >>

\* Lines 369-371: ping_host has returned; the result is stored under the lock
\* and handed back.
SingleStore(c) ==
    /\ pc[c] = "single"
    /\ tasks[c][1].st = "done"
    /\ results' = Store(results, tasks[c][1].host, TaskResult(c, 1))
    /\ tasks' = [tasks EXCEPT ![c][1].st = "stored", ![c][1].ord = 1]
    /\ pc' = [pc EXCEPT ![c] = "ret"]
    /\ ppc' = [ppc EXCEPT ![c] = "off"]
    /\ maxw' = [maxw EXCEPT ![c] = 0]
    /\ ret' = [ret EXCEPT ![c] = "ok"]
    /\ out' = [out EXCEPT ![c] = [h \in {tasks[c][1].host} |-> TaskResult(c, 1)]]
    /\ UNCHANGED << envVars, topoVars, schedVars, op, loadVars, iter, timeVars, histVars >>

\* The steps of ping_host inside a single probe (lines 145-209).
SingleProbe(c) ==
    /\ pc[c] = "single"
    /\ \/ TaskStart(c, 1)
       \/ TaskType(c, 1)
       \/ TaskColor(c, 1)

(***************************************************************************)
(* The clock.  Time measured in seconds goes on between any two steps.     *)
(***************************************************************************)
Clock ==
    /\ now < MaxNow
    /\ now' = now + 1
    /\ UNCHANGED << mock, topoVars, results, schedVars, pc, callVars, loadVars, passVars,
                    timeVars, histVars >>

(***************************************************************************)
(* load_config (lines 43-143).  One load runs at a time.                   *)
(***************************************************************************)
LoadPcs == {"ld_info", "ld_append", "ld_meta", "ld_seed"}
Loading(c) == pc[c] \in LoadPcs

\* A load that leaves self.hosts as it is.
RebindNothing == UNCHANGED << hosts, iter >>

\* self.hosts = []: the attribute names a new, empty list object.  An iteration
\* that holds the object named until now keeps it.
Rebind ==
    /\ hosts' = << >>
    /\ iter' = [r \in Runners |->
                   IF iter[r].live
                   THEN [live |-> FALSE, lst |-> hosts, idx |-> iter[r].idx]
                   ELSE iter[r]]

\* Lines 46-62: the file is read as document d; an empty or non-dictionary
\* document ends the load with self.hosts = [] (lines 50-58), as does a file
\* that cannot be read (lines 135-143); a dictionary goes on with
\* self.hosts = [] (line 62).
LoadDoc(c, d) ==
    /\ \A x \in Callers : ~Loading(x)
    /\ loads < MaxLoads
    /\ loads + forces + singles < MaxCalls
    /\ loads' = loads + 1
    /\ Enter(c, "load")
    /\ Rebind
    /\ ldOld' = [ldOld EXCEPT ![c] = hosts]
    /\ ldDoc' = [ldDoc EXCEPT ![c] = d]
    /\ IF Parsed(d)
       THEN /\ ldTodo' = [ldTodo EXCEPT ![c] = ParseHosts(d)]
            /\ pc' = [pc EXCEPT ![c] = "ld_info"]
            /\ UNCHANGED ret
       ELSE /\ pc' = [pc EXCEPT ![c] = "ret"]
            /\ ret' = [ret EXCEPT ![c] = "ok"]
            /\ UNCHANGED ldTodo
    /\ UNCHANGED << envVars, host_info, results, schedVars, out, ppc, maxw, tasks, timeVars,
                    passes, elapsed, startCalls, stopEarly, forces, singles >>

\* A reload of one of the documents the deployment switches between.
LoadBegin(c) == \E d \in Docs : LoadDoc(c, d)

\* A load of a generated grouped document.
LoadGrouped(c) == \E d \in GroupedDocs : LoadDoc(c, d)

\* A load of a document that is empty, no dictionary, unreadable or without
\* a 'hosts' key.
LoadBad(c) == \E d \in BadDocs : LoadDoc(c, d)

\* Line 63: self.host_info = {}
LoadInfo(c) ==
    /\ pc[c] = "ld_info"
    /\ host_info' = EmptyMap
    /\ pc' = [pc EXCEPT ![c] = IF ldTodo[c] = << >> THEN "ld_seed" ELSE "ld_append"]
    /\ UNCHANGED << envVars, hosts, results, schedVars, callVars, loadVars, passVars, timeVars,
                    histVars >>

\* Line 88: self.hosts.append(ip)
LoadAppend(c) ==
    /\ pc[c] = "ld_append"
    /\ hosts' = Append(hosts, Head(ldTodo[c]).ip)
    /\ pc' = [pc EXCEPT ![c] = "ld_meta"]
    /\ UNCHANGED << envVars, host_info, results, schedVars, callVars, loadVars, passVars, timeVars,
                    histVars >>

\* Lines 89-93: self.host_info[ip] = {...}
LoadMeta(c) ==
    /\ pc[c] = "ld_meta"
    /\ host_info' = Store(host_info, Head(ldTodo[c]).ip, Head(ldTodo[c]).meta)
    /\ ldTodo' = [ldTodo EXCEPT ![c] = Tail(@)]
    /\ pc' = [pc EXCEPT ![c] = IF Tail(ldTodo[c]) = << >> THEN "ld_seed" ELSE "ld_append"]
    /\ UNCHANGED << envVars, hosts, results, schedVars, callVars, ldOld, ldDoc, passVars, timeVars,
                    histVars >>

\* A seeding without the test of line 125.
SeededOverwrite(res, hs, info) ==
    [h \in DOMAIN res \cup Range(hs) |->
        IF h \in Range(hs) THEN Placeholder(info[h]) ELSE res[h]]

\* Lines 123-133, under the lock: a placeholder for every host without an entry.
Seeded(res, hs, info) ==
    [h \in DOMAIN res \cup Range(hs) |->
        IF h \in DOMAIN res THEN res[h] ELSE Placeholder(info[h])]

LoadSeed(c) ==
    /\ pc[c] = "ld_seed"
    /\ results' = Seeded(results, hosts, host_info)
    /\ pc' = [pc EXCEPT ![c] = "ret"]
    /\ ret' = [ret EXCEPT ![c] = "ok"]
    /\ UNCHANGED << envVars, topoVars, schedVars, op, out, loadVars, passVars, timeVars, histVars >>

\* The host list the load in progress of caller c will leave.
LoadTarget(c) ==
    IF pc[c] = "ld_meta" THEN hosts \o IpsOf(Tail(ldTodo[c]))
    ELSE hosts \o IpsOf(ldTodo[c])

(***************************************************************************)
(* start_background_monitoring (lines 293-299).                            *)
(***************************************************************************)
\* Line 295: if not self.background_thread or not ...is_alive()
StartCheck(c) ==
    /\ Enter(c, "start")
    /\ startCalls' = Sat(startCalls)
    /\ IF background_thread = NoThread \/ ~IsAlive(background_thread)
       THEN /\ pc' = [pc EXCEPT ![c] = "st_flag"]
            /\ UNCHANGED ret
       ELSE /\ pc' = [pc EXCEPT ![c] = "ret"]
            /\ ret' = [ret EXCEPT ![c] = "ok"]
    /\ UNCHANGED << envVars, topoVars, results, schedVars, out, loadVars, passVars, timeVars,
                    passes, elapsed, stopEarly, loads, forces, singles >>

\* Line 296: self.is_running = True
StartFlag(c) ==
    /\ pc[c] = "st_flag"
    /\ is_running' = TRUE
    /\ pc' = [pc EXCEPT ![c] = "st_create"]
    /\ UNCHANGED << envVars, topoVars, results, background_thread, callVars, loadVars, passVars,
                    timeVars, histVars >>

\* Line 297: self.background_thread = threading.Thread(...)
FreeSlots(p) == {t \in LoopIds : p[t] = "none"}
Lowest(S) == CHOOSE t \in S : \A u \in S : t <= u

StartCreate(c) ==
    /\ pc[c] = "st_create"
    /\ FreeSlots(Reap(pc, NoThread, joinOn)) # {}
    /\ background_thread' = Lowest(FreeSlots(Reap(pc, NoThread, joinOn)))
    /\ pc' = [Reap(pc, NoThread, joinOn) EXCEPT ![background_thread'] = "new",
                                                ![c] = "st_start"]
    /\ passes' = [Clean(pc', passes, 0) EXCEPT ![background_thread'] = 0]
    /\ elapsed' = [Clean(pc', elapsed, FALSE) EXCEPT ![background_thread'] = FALSE]
    /\ UNCHANGED << envVars, topoVars, results, is_running, callVars, loadVars, passVars, timeVars,
                    startCalls, stopEarly, solo, wasRunning, loads, forces, singles >>

\* Line 298: self.background_thread.start(); starting a Thread a second time
\* raises RuntimeError.
StartThread(c) ==
    /\ pc[c] = "st_start"
    /\ IF pc[background_thread] = "new"
       THEN /\ pc' = [pc EXCEPT ![background_thread] = "initial", ![c] = "ret"]
            /\ ppc' = [ppc EXCEPT ![background_thread] = "check"]
            /\ ret' = [ret EXCEPT ![c] = "ok"]
       ELSE /\ pc' = [pc EXCEPT ![c] = "ret"]
            /\ ret' = [ret EXCEPT ![c] = "exception"]
            /\ UNCHANGED ppc
    /\ UNCHANGED << envVars, topoVars, results, schedVars, op, out, loadVars, maxw, iter, tasks,
                    timeVars, histVars >>

(***************************************************************************)
(* stop_background_monitoring (lines 301-306).                             *)
(***************************************************************************)
\* Line 303: self.is_running = False
StopClear(c) ==
    /\ Enter(c, "stop")
    /\ is_running' = FALSE
    /\ pc' = [pc EXCEPT ![c] = "sp_check"]
    /\ stopEarly' = (stopEarly \/ ~elapsed[background_thread])
    /\ UNCHANGED << envVars, topoVars, results, background_thread, ret, out, loadVars, passVars,
                    timeVars, passes, elapsed, startCalls, loads, forces, singles >>

\* Lines 304-305: if the Thread is alive, join(timeout=5) begins.
StopCheck(c) ==
    /\ pc[c] = "sp_check"
    /\ IF background_thread # NoThread /\ IsAlive(background_thread)
       THEN /\ pc' = [pc EXCEPT ![c] = "sp_join"]
            /\ joinOn' = [joinOn EXCEPT ![c] = background_thread]
            /\ joinLeft' = [joinLeft EXCEPT ![c] = JoinTimeout]
            /\ UNCHANGED ret
       ELSE /\ pc' = [pc EXCEPT ![c] = "ret"]
            /\ ret' = [ret EXCEPT ![c] = "ok"]
            /\ UNCHANGED << joinOn, joinLeft >>
    /\ UNCHANGED << envVars, topoVars, results, schedVars, op, out, loadVars, passVars, sleepLeft,
                    histVars >>

\* Line 305: the join returns when the Thread has finished or the timeout is over.
StopJoin(c) ==
    /\ pc[c] = "sp_join"
    /\ ~IsAlive(joinOn[c]) \/ joinLeft[c] = 0
    /\ joinOn' = [joinOn EXCEPT ![c] = NoThread]
    /\ joinLeft' = [joinLeft EXCEPT ![c] = 0]
    /\ pc' = Reap([pc EXCEPT ![c] = "ret"], background_thread, joinOn')
    /\ ret' = [ret EXCEPT ![c] = "ok"]
    /\ passes' = Clean(pc', passes, 0)
    /\ elapsed' = Clean(pc', elapsed, FALSE)
    /\ UNCHANGED << envVars, topoVars, results, schedVars, op, out, loadVars, passVars, sleepLeft,
                    startCalls, stopEarly, solo, wasRunning, loads, forces, singles >>

(***************************************************************************)
(* Specifications.  Next is the whole monitor.  The other next-state       *)
(* relations are the monitor under callers that use a part of its          *)
(* interface; in NextForce the loop Thread is never scheduled.             *)
(***************************************************************************)
Next ==
    \/ \E c \in Callers : LoadBegin(c)
    \/ \E c \in Callers : LoadInfo(c)
    \/ \E c \in Callers : LoadAppend(c)
    \/ \E c \in Callers : LoadMeta(c)
    \/ \E c \in Callers : LoadSeed(c)
    \/ \E c \in Callers : Force(c)
    \/ \E c \in Callers : Health(c)
    \/ \E c \in Callers : ResultsCopy(c)
    \/ \E c \in Callers : StartCheck(c)
    \/ \E c \in Callers : StartFlag(c)
    \/ \E c \in Callers : StartCreate(c)
    \/ \E c \in Callers : StartThread(c)
    \/ \E c \in Callers : StopClear(c)
    \/ \E c \in Callers : StopCheck(c)
    \/ \E c \in Callers : StopJoin(c)
    \/ \E c \in Callers : Return(c)
    \/ \E r \in Runners : PassStep(r)
    \/ \E t \in LoopIds : LoopStep(t)
    \/ Tick

Spec == Init /\ [][Next]_vars

\* Reloads while the loop monitors.
NextLoad ==
    \/ \E c \in Callers : LoadBegin(c)
    \/ \E c \in Callers : LoadInfo(c)
    \/ \E c \in Callers : LoadAppend(c)
    \/ \E c \in Callers : LoadMeta(c)
    \/ \E c \in Callers : LoadSeed(c)
    \/ \E c \in Callers : Return(c)
    \/ \E r \in LoopIds : PassStep(r)
    \/ \E t \in LoopIds : LoopStep(t)
    \/ Tick

SpecLoad == Init /\ [][NextLoad]_vars

\* The same under fair scheduling: a loop Thread that can take a step takes one,
\* a load that has begun goes on, and time passes when every thread waits.
FairLoad ==
    /\ \A t \in LoopIds : WF_vars(PassStep(t) \/ LoopStep(t))
    /\ \A c \in Callers :
          WF_vars(LoadInfo(c) \/ LoadAppend(c) \/ LoadMeta(c) \/ LoadSeed(c))
    /\ WF_vars(Tick)

SpecLoadFair == Init /\ [][NextLoad]_vars /\ FairLoad

\* Reloads and health reads while the loop monitors.
NextReload ==
    \/ \E c \in Callers : LoadBegin(c)
    \/ \E c \in Callers : LoadInfo(c)
    \/ \E c \in Callers : LoadAppend(c)
    \/ \E c \in Callers : LoadMeta(c)
    \/ \E c \in Callers : LoadSeed(c)
    \/ \E c \in Callers : Health(c)
    \/ \E c \in Callers : Return(c)
    \/ \E r \in LoopIds : PassStep(r)
    \/ \E t \in LoopIds : LoopStep(t)
    \/ Tick

SpecReload == Init /\ [][NextReload]_vars

\* Forced passes and reloads.
NextForce ==
    \/ \E c \in Callers : LoadBegin(c)
    \/ \E c \in Callers : LoadInfo(c)
    \/ \E c \in Callers : LoadAppend(c)
    \/ \E c \in Callers : LoadMeta(c)
    \/ \E c \in Callers : LoadSeed(c)
    \/ \E c \in Callers : Force(c)
    \/ \E c \in Callers : Return(c)
    \/ \E r \in Callers : PassStep(r)

SpecForce == Init /\ [][NextForce]_vars

\* Starts and stops of the scheduler over a fixed topology.
InitSched == InitOf(DocB)

NextSched ==
    \/ \E c \in Callers : StartCheck(c)
    \/ \E c \in Callers : StartFlag(c)
    \/ \E c \in Callers : StartCreate(c)
    \/ \E c \in Callers : StartThread(c)
    \/ \E c \in Callers : StopClear(c)
    \/ \E c \in Callers : StopCheck(c)
    \/ \E c \in Callers : StopJoin(c)
    \/ \E c \in Callers : Return(c)
    \/ \E r \in LoopIds : PassStep(r)
    \/ \E t \in LoopIds : LoopWhile(t)
    \/ \E t \in LoopIds : LoopWake(t)
    \/ Tick

SpecSched == InitSched /\ [][NextSched]_vars

\* The scheduler as constructed (started once), then stopped.
NextStop ==
    \/ \E c \in Callers : StopClear(c)
    \/ \E c \in Callers : StopCheck(c)
    \/ \E c \in Callers : StopJoin(c)
    \/ \E c \in Callers : Return(c)
    \/ \E r \in LoopIds : PassStep(r)
    \/ \E t \in LoopIds : LoopWhile(t)
    \/ \E t \in LoopIds : LoopWake(t)
    \/ Tick

SpecStop == Init /\ [][NextStop]_vars

\* The same under fair scheduling: a thread that can take a step takes one,
\* a stop that has begun goes on, and time passes when every thread waits.
FairStop ==
    /\ \A t \in LoopIds : WF_vars(PassStep(t) \/ LoopWhile(t) \/ LoopWake(t))
    /\ \A c \in Callers : WF_vars(StopCheck(c) \/ StopJoin(c))
    /\ WF_vars(Tick)

SpecStopFair == Init /\ [][NextStop]_vars /\ FairStop

\* Loads of grouped documents, one after the other; the loop Thread is never
\* scheduled.
NextParse ==
    \/ \E c \in Callers : LoadGrouped(c)
    \/ \E c \in Callers : LoadInfo(c)
    \/ \E c \in Callers : LoadAppend(c)
    \/ \E c \in Callers : LoadMeta(c)
    \/ \E c \in Callers : LoadSeed(c)
    \/ \E c \in Callers : Return(c)

SpecParse == Init /\ [][NextParse]_vars

\* Loads of documents with nothing to load and health reads while the loop
\* monitors.
NextBad ==
    \/ \E c \in Callers : LoadBad(c)
    \/ \E c \in Callers : LoadInfo(c)
    \/ \E c \in Callers : LoadSeed(c)
    \/ \E c \in Callers : Health(c)
    \/ \E c \in Callers : Return(c)
    \/ \E r \in LoopIds : PassStep(r)
    \/ \E t \in LoopIds : LoopStep(t)
    \/ Tick

SpecBad == Init /\ [][NextBad]_vars

\* Single probes and snapshots under every outcome of the ping of h1; the loop
\* Thread is never scheduled.
Mocks == {[FixedMock EXCEPT !["h1"] = o] : o \in Outcomes}
InitProbe == \E d \in InitDocs : \E m \in Mocks : InitMock(d, m)
NextProbe ==
    \/ \E c \in Callers : \E h \in Addresses : Single(c, h)
    \/ \E c \in Callers : SingleProbe(c)
    \/ \E c \in Callers : SingleStore(c)
    \/ \E c \in Callers : ResultsCopy(c)
    \/ \E c \in Callers : Return(c)

SpecProbe == InitProbe /\ [][NextProbe]_vars

\* Single probes and reloads; the loop Thread is never scheduled.
NextSingle ==
    \/ \E c \in Callers : LoadBegin(c)
    \/ \E c \in Callers : LoadInfo(c)
    \/ \E c \in Callers : LoadAppend(c)
    \/ \E c \in Callers : LoadMeta(c)
    \/ \E c \in Callers : LoadSeed(c)
    \/ \E c \in Callers : \E h \in Addresses : Single(c, h)
    \/ \E c \in Callers : SingleProbe(c)
    \/ \E c \in Callers : SingleStore(c)
    \/ \E c \in Callers : Return(c)

SpecSingle == Init /\ [][NextSingle]_vars

\* Single probes next to the loop's initial pass, with the clock running.
NextFresh ==
    \/ \E c \in Callers : \E h \in Addresses : Single(c, h)
    \/ \E c \in Callers : SingleProbe(c)
    \/ \E c \in Callers : SingleStore(c)
    \/ \E c \in Callers : Return(c)
    \/ \E r \in LoopIds : PassStep(r)
    \/ Clock

SpecFresh == Init /\ [][NextFresh]_vars

(***************************************************************************)
(* Properties.                                                             *)
(***************************************************************************)
TaskHosts(c) == {tasks[c][i].host : i \in 1..Len(tasks[c])}
ForceReturned(c) == pc[c] = "ret" /\ op[c] = "force" /\ ret[c] = "ok"

\* C1: when a forced pass has returned, every host it dispatched a probe for has
\* an entry in the store with the status and latency of that host's fixed
\* outcome, in whatever order the probes ended; with no reload in the run the
\* dispatched hosts are exactly the hosts of the topology, one probe each.
C1_RunAllStoresEveryOutcome ==
    \A c \in Callers :
        ForceReturned(c) =>
            /\ \A h \in TaskHosts(c) :
                /\ h \in DOMAIN results
                /\ results[h].status = Classify(MockOutcome(h))
                /\ results[h].latency = ResultLatency(MockOutcome(h))
                /\ results[h].timestamp # None
            /\ loads = 0 =>
                /\ TaskHosts(c) = Range(hosts)
                /\ Len(tasks[c]) = Len(hosts)
                /\ DOMAIN results = Range(hosts)

\* A forced pass over two hosts has returned, the probe submitted second having
\* been handed over first.
C1_Witness ==
    \E c \in Callers :
        /\ ForceReturned(c)
        /\ Len(tasks[c]) = 2
        /\ tasks[c][2].ord = 1
        /\ results["h1"].status = "green"
        /\ results["h2"].status = "red"

\* C2: at most one background loop is alive at any time.
C2_AtMostOneLoop == Cardinality(AliveLoops) <= 1

\* C3: when a start that ran alone on a scheduler whose running flag was clear
\* has returned, the flag is set and the background Thread is alive.
C3_StartRestarts ==
    \A c \in Callers :
        (pc[c] = "ret" /\ op[c] = "start" /\ solo[c] /\ ~wasRunning[c]) =>
            (is_running /\ IsAlive(background_thread))

\* C4: started once and stopped before the first interval elapsed, the loop
\* begins at most one full pass, and exactly one by the time it has exited.
C4_OnePassWhenStoppedEarly ==
    (startCalls = 1 /\ stopEarly) =>
        /\ passes[background_thread] <= 1
        /\ pc[background_thread] = "dead" => passes[background_thread] = 1

\* The loop has exited after a stop that came before the first interval elapsed.
C4_Witness ==
    /\ startCalls = 1
    /\ stopEarly
    /\ pc[background_thread] = "dead"
    /\ passes[background_thread] = 1

\* C5: started once and stopped before the first interval elapsed, the loop is
\* no longer alive when stop has returned.
C5_LoopExitedWhenStopReturns ==
    \A c \in Callers :
        (pc[c] = "ret" /\ op[c] = "stop" /\ startCalls = 1 /\ stopEarly) =>
            ~IsAlive(background_thread)

\* C6: while the running flag is set, a started background Thread does not end,
\* whatever happens inside its passes.
C6_LoopSurvivesPassError ==
    is_running => pc[background_thread] # "dead"

LoadStep ==
    \E c \in Callers : op'[c] = "load" /\ pc'[c] # pc[c] /\ pc[c] \in LoadPcs \cup {"idle"}

\* C7: no step of a load changes or removes an entry of the store; the entries
\* it adds are placeholders (unknown, no latency, no timestamp) of hosts of the
\* topology, and when the load has seeded every host of the topology has one.
C7_ReloadKeepsEntries ==
    [][LoadStep =>
        /\ \A h \in DOMAIN results : h \in DOMAIN results' /\ results'[h] = results[h]
        /\ \A h \in DOMAIN results' \ DOMAIN results :
            /\ h \in Range(hosts)
            /\ results'[h].status = "unknown"
            /\ results'[h].latency = None
            /\ results'[h].timestamp = None
        /\ (\E c \in Callers : pc[c] = "ld_seed" /\ pc'[c] = "ret") =>
               Range(hosts) \subseteq DOMAIN results']_vars

\* A load has returned: the entry of an address it removed from the topology is
\* still there, and the entry of an address it kept still holds a probe result.
C7_Witness ==
    \E c \in Callers :
        /\ pc[c] = "ret" /\ op[c] = "load"
        /\ \E h \in DOMAIN results : h \notin Range(hosts) /\ results[h].status # "unknown"
        /\ \E h \in Range(hosts) : h \in DOMAIN results /\ results[h].status # "unknown"

\* The metadata versions the documents give address h.
Versions(h) ==
    UNION {{ParseHosts(d)[i].meta : i \in {j \in 1..Len(ParseHosts(d)) : ParseHosts(d)[j].ip = h}}
           : d \in {x \in Docs : x.kind = "map"}}

\* C8: type, color and known_offline of every stored probe result are those of
\* one version of the host's metadata.
C8_ResultOfOneMetadataVersion ==
    \A h \in DOMAIN results :
        results[h].status # "unknown" =>
            Meta(results[h].type, results[h].color, results[h].known_offline) \in Versions(h)

\* C9: the host count a health summary reads while a load is in progress is
\* that of the host list before the load or that of the list the load leaves.
C9_HostSetSwappedAtomically ==
    [][\A c \in Callers :
        (pc[c] = "idle" /\ pc'[c] = "ret" /\ op'[c] = "health") =>
            \A l \in Callers :
                Loading(l) => out'[c].hosts_count \in {Len(ldOld[l]), Len(LoadTarget(l))}]_vars

\* C10: a forced pass and a snapshot never end with an exception.
C10_NoExceptionOutward ==
    \A c \in Callers :
        (pc[c] = "ret" /\ op[c] \in {"force", "snapshot"}) => ret[c] # "exception"

\* The entries of the store other than that of address h are what they were.
OthersKept(h) ==
    /\ DOMAIN results' \ {h} = DOMAIN results \ {h}
    /\ \A x \in DOMAIN results \ {h} : results'[x] = results[x]

\* C11: a single probe for an address that is not in the host list at the test
\* of line 367 ends as "not found" and leaves the store as it was; for an
\* address in the list it starts a probe of that address, whose steps leave the
\* store alone until the one that writes the returned result to the entry of
\* that address and to no other.
C11_SingleWritesOwnEntryOrNotFound ==
    [][\A c \in Callers :
          /\ \A h \in Addresses :
                Single(c, h) =>
                    IF h \in Range(hosts)
                    THEN pc'[c] = "single" /\ tasks'[c][1].host = h /\ results' = results
                    ELSE pc'[c] = "ret" /\ ret'[c] = "not_found" /\ results' = results
          /\ (pc[c] = "single" /\ pc'[c] = "single" /\ tasks'[c] # tasks[c]) =>
                results' = results
          /\ (pc[c] = "single" /\ pc'[c] = "ret") =>
                /\ ret'[c] = "ok"
                /\ tasks[c][1].host \in DOMAIN results'
                /\ results'[tasks[c][1].host] = out'[c][tasks[c][1].host]
                /\ results'[tasks[c][1].host].status = Classify(MockOutcome(tasks[c][1].host))
                /\ OthersKept(tasks[c][1].host)]_vars

\* Both outcomes at once: one caller was told "not found", another has probed
\* an address and finds its result in the store.
C11_Witness ==
    \E c, x \in Callers :
        /\ pc[c] = "ret" /\ op[c] = "single" /\ ret[c] = "not_found"
        /\ pc[x] = "ret" /\ op[x] = "single" /\ ret[x] = "ok"
        /\ results[tasks[x][1].host] = out[x][tasks[x][1].host]
        /\ results[tasks[x][1].host].status # "unknown"

\* The last pair of es for address h.
RECURSIVE LastMeta(_, _)
LastMeta(es, h) ==
    IF es[Len(es)].ip = h THEN es[Len(es)].meta
    ELSE LastMeta(SubSeq(es, 1, Len(es) - 1), h)

Occurrences(s, h) == Cardinality({i \in 1..Len(s) : s[i] = h})
LoadReturned(c) == pc[c] = "ret" /\ op[c] = "load"

\* C12: when the load of a grouped document has returned, every address the
\* document names is in the host list exactly once, with the label, color and
\* known-offline flag of its last occurrence in the document.
C12_GroupedHostsUnique ==
    \A c \in Callers :
        (LoadReturned(c) /\ ldDoc[c] \in GroupedDocs) =>
            \A h \in Range(IpsOf(ParseHosts(ldDoc[c]))) :
                /\ Occurrences(hosts, h) = 1
                /\ h \in DOMAIN host_info
                /\ host_info[h] = LastMeta(ParseHosts(ldDoc[c]), h)

\* C13: the load of a document that is empty, no dictionary, unreadable or
\* without a 'hosts' key changes no entry of the store in any of its steps and
\* returns normally with an empty host list; a health read taken after such a
\* load, with no load in progress, counts 0 hosts.
C13_BadDocumentEmptiesHosts ==
    [][\A c \in Callers :
          /\ (op'[c] = "load" /\ pc'[c] # pc[c] /\ pc'[c] # "idle"
                  /\ ldDoc'[c] \in BadDocs) =>
                /\ results' = results
                /\ pc'[c] = "ret" => (ret'[c] = "ok" /\ hosts' = << >>)
          /\ (Health(c) /\ loads > 0 /\ \A x \in Callers : ~Loading(x)) =>
                out'[c].hosts_count = 0]_vars

\* A bad document was loaded over a store that holds a measured result, and a
\* health read has counted 0 hosts.
C13_Witness ==
    \E c, x \in Callers :
        /\ LoadReturned(c) /\ ldDoc[c] \in BadDocs \ {DocNone} /\ ret[c] = "ok"
        /\ hosts = << >>
        /\ \E h \in DOMAIN results : results[h].status # "unknown"
        /\ pc[x] = "ret" /\ op[x] = "health" /\ out[x].hosts_count = 0

SnapshotReturned(c) == pc[c] = "ret" /\ op[c] = "snapshot"
ResultFields == {"status", "latency", "timestamp", "type", "color", "known_offline"}

\* C14: in every entry of a returned snapshot the known-offline tag is set
\* exactly when the entry is red and marked known offline, the unknown-offline
\* tag exactly when it is red and not so marked; the two are never set together
\* and neither is set on an entry that is not red.  The entries of the store
\* itself carry no tag.
C14_SnapshotTags ==
    /\ \A c \in Callers :
          SnapshotReturned(c) =>
              \A h \in DOMAIN out[c] :
                  /\ out[c][h].show_known_tag =
                        (out[c][h].status = "red" /\ out[c][h].known_offline)
                  /\ out[c][h].show_unknown_tag =
                        (out[c][h].status = "red" /\ ~out[c][h].known_offline)
                  /\ ~(out[c][h].show_known_tag /\ out[c][h].show_unknown_tag)
                  /\ out[c][h].status # "red" =>
                        (~out[c][h].show_known_tag /\ ~out[c][h].show_unknown_tag)
    /\ \A h \in DOMAIN results : DOMAIN results[h] = ResultFields

\* A snapshot with a red entry of either kind and an entry that is not red.
C14_Witness ==
    \E c \in Callers :
        /\ SnapshotReturned(c)
        /\ \E h \in DOMAIN out[c] : out[c][h].show_known_tag
        /\ \E h \in DOMAIN out[c] : out[c][h].show_unknown_tag

SingleReturned(c) == pc[c] = "ret" /\ op[c] = "single"
Reachable(o) == o.raised = "none" /\ o.returncode = 0

\* C15: a single probe that found its address returns normally with a result
\* whose status follows from the outcome of the ping alone: red with no latency
\* if the ping was not reachable (non-zero return code, timeout or error),
\* whatever latency its output held; otherwise green up to 50.0 ms or with no
\* latency parsed, yellow from 50.1 ms on, the latency being the parsed one.
\* No single probe ends in an exception.
C15_StatusFromReachabilityAndLatency ==
    \A c \in Callers :
        SingleReturned(c) =>
            /\ ret[c] \in {"ok", "not_found"}
            /\ ret[c] = "ok" =>
                  \A h \in DOMAIN out[c] :
                      /\ out[c][h].status \in {"green", "yellow", "red"}
                      /\ ~Reachable(mock[h]) =>
                            (out[c][h].status = "red" /\ out[c][h].latency = None)
                      /\ Reachable(mock[h]) =>
                            /\ out[c][h].latency = mock[h].latency
                            /\ out[c][h].status =
                                  IF mock[h].latency = None THEN "green"
                                  ELSE IF mock[h].latency <= 50 * Tenths THEN "green"
                                  ELSE "yellow"

\* A probe whose ping was reachable in exactly 50.0 ms came back green.
C15_Witness ==
    \E c \in Callers :
        /\ SingleReturned(c) /\ ret[c] = "ok"
        /\ \E h \in DOMAIN out[c] :
              /\ Reachable(mock[h])
              /\ mock[h].latency = 50 * Tenths
              /\ out[c][h].status = "green"

\* The pass of loop t returns normally in this step.
LoopPassEnds(t) ==
    pc[t] \in {"initial", "interval"} /\ ppc[t] = "collect" /\ ppc'[t] = "off"

\* C16: a loop begins an interval pass only in a step in which the running flag
\* is set, so none after stop has cleared it; a pass that is in flight when the
\* flag is cleared returns with the result of every host it dispatched in the
\* store; and once the flag is cleared every loop Thread eventually is no
\* longer alive.
C16_StopIsCooperative ==
    /\ [][\A t \in LoopIds :
            /\ (pc[t] # "interval" /\ pc'[t] = "interval") => is_running
            /\ (LoopPassEnds(t) /\ ~is_running) =>
                  \A i \in 1..Len(tasks[t]) :
                      /\ tasks[t][i].host \in DOMAIN results'
                      /\ results'[tasks[t][i].host].status =
                            Classify(MockOutcome(tasks[t][i].host))]_vars
    /\ \A t \in LoopIds : (~is_running) ~> ~IsAlive(t)

\* Stop has just cleared the flag while an interval pass is in flight with a
\* probe still to be collected.
C16_Witness ==
    \E c \in Callers :
        /\ pc[c] = "sp_check"
        /\ ~is_running
        /\ pc[background_thread] = "interval"
        /\ ppc[background_thread] = "collect"
        /\ \E i \in 1..Len(tasks[background_thread]) :
              tasks[background_thread][i].st # "stored"

Statuses == {"unknown", "green", "yellow", "red"}

\* C17: every entry of the store has all six fields, a status out of unknown,
\* green, yellow, red, and no timestamp exactly when its status is unknown; no
\* step removes an entry or takes an entry whose status is not unknown back to
\* unknown.
C17_EntriesCompleteAndNeverUnknownAgain ==
    /\ [](\A h \in DOMAIN results :
            /\ DOMAIN results[h] = ResultFields
            /\ results[h].status \in Statuses
            /\ (results[h].timestamp = None) = (results[h].status = "unknown"))
    /\ [][\A h \in DOMAIN results :
            /\ h \in DOMAIN results'
            /\ results[h].status # "unknown" => results'[h].status # "unknown"]_vars

\* A reload that names an address again has returned and the address still has
\* the measured entry it had.
C17_Witness ==
    \E c \in Callers :
        /\ LoadReturned(c)
        /\ Parsed(ldDoc[c])
        /\ \E h \in Range(hosts) :
              /\ results[h].status # "unknown"
              /\ results[h].timestamp # None

\* C18: every address of the host list has an entry in the store.
C18_EveryListedHostHasEntry ==
    \A h \in Range(hosts) : h \in DOMAIN results

Measured(h) == h \in DOMAIN results /\ results[h].status # "unknown"

\* C19: an address that is in the host list while the running flag is set
\* eventually has a measured entry, unless it leaves the list or the flag is
\* cleared first.
C19_ListedHostEventuallyMeasured ==
    \A h \in Hosts :
        [](h \in Range(hosts) /\ is_running
             => <>(Measured(h) \/ h \notin Range(hosts) \/ ~is_running))

\* C20: no step removes an entry of the store or replaces the entry of a host
\* by a result with an earlier timestamp.
C20_TimestampNeverMovesBack ==
    [][\A h \in DOMAIN results :
          /\ h \in DOMAIN results'
          /\ results[h].timestamp # None =>
                results'[h].timestamp >= results[h].timestamp]_vars

====
